---------------------------- MODULE Spec2Model ----------------------------
(***************************************************************************)
(* A model of generic_tray.py: the tray generator (createSubtractSlot,     *)
(* createTray), the analytic cavity volume (computeSlotVolume) and the     *)
(* script's main flow (option parsing, round-depth check, build, render,   *)
(* volume report).                                                         *)
(*                                                                         *)
(* Lengths are exact numbers: integers for the inputs, reduced fractions   *)
(* <<n, d>> (d > 0) wherever the code divides or multiplies by 1.1,        *)
(* sqrt(2) or pi.  sqrt(2) and pi are irrational; each evaluation of the   *)
(* volume formula takes them from a pair of rational bounds (MathBounds).  *)
(* Floating-point rounding is not modelled.                                *)
(***************************************************************************)
EXTENDS Integers, Sequences, FiniteSets, TLC

VARIABLES pc, globals, cli, ok, tray, ret, scad, vol

vars == <<pc, globals, cli, ok, tray, ret, scad, vol>>

---------------------------------------------------------------------------
(* Bounds of the model *)

\* longest size list (columns or rows) handed to createTray
MaxLen == 2
\* thickest wall
MaxWall == 1
\* deepest tray of the main flow and of the volume calls
MaxDepth == 7

\* entries of the size lists a client passes
Sizes == {1, 2}
\* size lists of the main flow (the two positional arguments): empty, valid,
\* and with an entry that is not positive
CliLists == {<<>>, <<2>>, <<0, 1>>}
Walls == 0..MaxWall
Floors == {0, 1}
\* depth / round-depth arguments of a client's createTray call
Deps == {2, 3}
RDeps == {0, 1}
\* what a client may bind the module-level name `depth` to
ClientDepths == {3}
\* --depth and --round of the main flow, arguments of the volume calls
Depths == 1..MaxDepth
Rounds == -1..(MaxDepth + 1)
\* cavity sizes of the volume calls
VolSizes == 0..2

\* the non-empty lists over Sizes of length at most n
RECURSIVE ListsUpTo(_)
ListsUpTo(n) ==
    IF n = 1 THEN {<<s>> : s \in Sizes}
    ELSE LET shorter == ListsUpTo(n - 1)
         IN  shorter \cup {Append(l, s) : l \in {q \in shorter : Len(q) = n - 1},
                                          s \in Sizes}

\* size lists a client passes to createTray
Lists == ListsUpTo(MaxLen)

---------------------------------------------------------------------------
(* Exact arithmetic: Python's float operators on the values of the model *)

Abs(n) == IF n < 0 THEN -n ELSE n

RECURSIVE GCD(_, _)
GCD(a, b) == IF b = 0 THEN a ELSE GCD(b, a % b)

\* the reduced fraction n/d, d # 0
Rat(n, d) ==
    LET g == GCD(Abs(n), Abs(d))
        s == IF d < 0 THEN -1 ELSE 1
    IN  <<(s * n) \div g, (s * d) \div g>>

FromInt(n) == <<n, 1>>

RAdd(a, b) == Rat(a[1] * b[2] + b[1] * a[2], a[2] * b[2])
RSub(a, b) == Rat(a[1] * b[2] - b[1] * a[2], a[2] * b[2])
\* cross-reduced first, to keep the products small
RMul(a, b) ==
    LET p == Rat(a[1], b[2])
        q == Rat(b[1], a[2])
    IN  <<p[1] * q[1], p[2] * q[2]>>
\* a / b, for b # 0 (Python raises ZeroDivisionError for b = 0)
RDiv(a, b) == RMul(a, Rat(b[2], b[1]))
\* a < b, compared over the least common denominator
RLess(a, b) ==
    LET g == GCD(a[2], b[2])
    IN  a[1] * (b[2] \div g) < b[1] * (a[2] \div g)
RLeq(a, b) == a = b \/ RLess(a, b)
Max(a, b) == IF a > b THEN a ELSE b

\* rational bounds of the two irrational constants: 7/5 < sqrt(2) < 3/2 and
\* 3 < pi < 22/7
MathBounds == {[sqrt2 |-> s, pi |-> p] : s \in {<<7, 5>>, <<3, 2>>},
                                         p \in {<<3, 1>>, <<22, 7>>}}

---------------------------------------------------------------------------
(* createSubtractSlot: the plug subtracted from the tray for one cavity *)

\* the module-level name `depth`, read (not passed) by the two builders
DepthBound == "depth" \in DOMAIN globals

\* depth * 1.1
Overshoot(d) == RMul(FromInt(d), <<11, 10>>)

\* The solid returned, or the exception raised.  binDepth is accepted and
\* never read: every height comes from the module-level `depth`.
\* The sphere is kept by the square of its radius, (sqrt(2)*sizeX/2)^2 =
\* sizeX^2/2, and the square of its z-scale, (roundDepth/sphereRad)^2.
createSubtractSlot(offsetX, offsetY, sizeX, sizeY, binDepth, roundDepth, trayFloor) ==
    IF ~DepthBound THEN [exc |-> "NameError"]
    ELSE IF roundDepth <= 0 THEN
        [exc |-> "none", kind |-> "flat",
         at |-> <<offsetX, offsetY, trayFloor>>,
         cube |-> <<sizeX, sizeY, Overshoot(globals.depth)>>]
    ELSE IF sizeX = 0 THEN [exc |-> "ZeroDivisionError"]
    ELSE
        [exc |-> "none", kind |-> "round",
         at |-> <<offsetX, offsetY, trayFloor>>,
         scaleY |-> Rat(sizeY, sizeX),
         fullPrism |-> <<sizeX, sizeX, Overshoot(globals.depth)>>,
         partPrismZ |-> roundDepth,
         sphereAt |-> <<Rat(sizeX, 2), Rat(sizeX, 2), FromInt(roundDepth)>>,
         sphereRadSq |-> Rat(sizeX * sizeX, 2),
         sphereScaleZSq |-> RDiv(FromInt(roundDepth * roundDepth),
                                 Rat(sizeX * sizeX, 2))]

\* height of the prism a cavity is cut from
PrismHeight(slot) ==
    IF slot.kind = "flat" THEN slot.cube[3] ELSE slot.fullPrism[3]

\* the x and y extent of a cavity in tray coordinates: the cube of the flat
\* branch, the square working frame stretched by scaleY in the round one
Footprint(slot) ==
    LET sx == IF slot.kind = "flat" THEN slot.cube[1] ELSE slot.fullPrism[1]
        sy == IF slot.kind = "flat" THEN FromInt(slot.cube[2])
              ELSE RMul(FromInt(slot.fullPrism[2]), slot.scaleY)
    IN  [x0 |-> FromInt(slot.at[1]), x1 |-> FromInt(slot.at[1] + sx),
         y0 |-> FromInt(slot.at[2]), y1 |-> RAdd(FromInt(slot.at[2]), sy)]

---------------------------------------------------------------------------
(* computeSlotVolume: the capacity of one cavity, in mL and in cups *)

\* m holds the values taken for sqrt(2) and pi

\* sphereRad = sqrt(2) * xsz / 2.0
SphereRad(xsz, m) == RDiv(RMul(m.sqrt2, FromInt(xsz)), FromInt(2))

\* sphereScaleZ = rdepth / sphereRad
SphereScaleZ_Unscaled(xsz, rdepth, m) == FromInt(1)
SphereScaleZ(xsz, rdepth, m) == RDiv(FromInt(rdepth), SphereRad(xsz, m))

\* oneCapFullVol = pi * h * (3 * a * a + h * h) / 6.0, a = xsz / 2.0,
\* h = sphereRad - a
OneCapFullVol(xsz, m) ==
    LET a == Rat(xsz, 2)
        h == RSub(SphereRad(xsz, m), a)
    IN  RDiv(RMul(RMul(m.pi, h),
                  RAdd(RMul(RMul(FromInt(3), a), a), RMul(h, h))),
             FromInt(6))

\* fullSphereVol = 4.0 * pi * sphereRad ** 3 / 3.0
FullSphereVol(xsz, m) ==
    LET r == SphereRad(xsz, m)
    IN  RDiv(RMul(RMul(FromInt(4), m.pi), RMul(RMul(r, r), r)), FromInt(3))

\* roundVol_mm3 = (fullSphereVol - 4 * oneCapFullVol) / 2.0
ClippedHemisphere_NotHalved(xsz, m) ==
    RSub(FullSphereVol(xsz, m), RMul(FromInt(4), OneCapFullVol(xsz, m)))
ClippedHemisphere_CapsKept(xsz, m) ==
    RDiv(FullSphereVol(xsz, m), FromInt(2))
ClippedHemisphere(xsz, m) ==
    RDiv(RSub(FullSphereVol(xsz, m), RMul(FromInt(4), OneCapFullVol(xsz, m))),
         FromInt(2))

\* [totalVol_mL, totalVol_cups], or the exception raised (ysz / xsz and
\* rdepth / sphereRad divide by zero for xsz = 0).  The result also keeps
\* the intermediate sphereScaleY, roundVol_mm3 and totalVol_mm3.
computeSlotVolume(xsz, ysz, depth, rdepth, m) ==
    IF xsz = 0 THEN [exc |-> "ZeroDivisionError"]
    ELSE
    LET sphereScaleY  == Rat(ysz, xsz)
        sphereScaleZ  == SphereScaleZ(xsz, rdepth, m)
        roundVol_mm3  == RMul(RMul(ClippedHemisphere(xsz, m), sphereScaleY),
                              sphereScaleZ)
        prismTop_mm3  == FromInt((depth - rdepth) * xsz * ysz)
        totalVol_mm3  == RAdd(prismTop_mm3, roundVol_mm3)
    IN  [exc |-> "none",
         scaleY |-> sphereScaleY,
         round_mm3 |-> roundVol_mm3,
         mm3 |-> totalVol_mm3,
         mL |-> RDiv(totalVol_mm3, FromInt(1000)),
         cups |-> RDiv(totalVol_mm3, FromInt(236588))]

---------------------------------------------------------------------------
(* The state *)

\* pc       where the program is
\* globals  the module namespace: name -> value, for the names bound so far
\* cli      the parsed command line (CLI_OPTIONS, CLI_ARGS), once main ran
\* ok       the operator's answer to 'Shorten round depth? [Y/n]: '
\* tray     the frame of the running (or finished) createTray call
\* ret      what createTray returned: [totalWidth, totalHeight, solid]
\* scad     whether scad_render_to_file has written the .scad file
\* vol      the computeSlotVolume calls made, in order, with their results
\* (exceptions are recorded in pc: "raised" with tray.exc / vol's last res)

NoValue == <<>>

Init ==
    /\ pc = "loaded"
    /\ globals = [xScale |-> 1, yScale |-> 1, zScale |-> 1]
    /\ cli = NoValue
    /\ ok = NoValue
    /\ tray = NoValue
    /\ ret = NoValue
    /\ scad = FALSE
    /\ vol = <<>>

---------------------------------------------------------------------------
(* createTray *)

\* xOff += wall + xsz   and   yOff += wall + ysz
Advance_NoWall(off, wall, sz) == off + sz
Advance(off, wall, sz) == off + wall + sz

\* the frame on entry: slots = [], xOff = wall, yOff = wall
Frame_ZeroOffsets(caller, xlist, ylist, dep, rdep, wall, floor) ==
    [caller |-> caller, xlist |-> xlist, ylist |-> ylist, dep |-> dep,
     rdep |-> rdep, wall |-> wall, floor |-> floor,
     slots |-> <<>>, xOff |-> 0, yOff |-> 0, row |-> 1, col |-> 0,
     exc |-> "none"]
Frame(caller, xlist, ylist, dep, rdep, wall, floor) ==
    [caller |-> caller, xlist |-> xlist, ylist |-> ylist, dep |-> dep,
     rdep |-> rdep, wall |-> wall, floor |-> floor,
     slots |-> <<>>, xOff |-> wall, yOff |-> wall, row |-> 1, col |-> 0,
     exc |-> "none"]

\* for ysz in ylist: xOff = wall
createTray_Row ==
    /\ pc = "createTray_row"
    /\ IF tray.row <= Len(tray.ylist)
       THEN /\ tray' = [tray EXCEPT !.xOff = tray.wall, !.col = 1]
            /\ pc' = "createTray_col"
       ELSE /\ pc' = "createTray_finish"
            /\ UNCHANGED tray
    /\ UNCHANGED <<globals, cli, ok, ret, scad, vol>>

\* for xsz in xlist: the slot of one cell; after the last one, the row ends
createTray_Col ==
    /\ pc = "createTray_col"
    /\ IF tray.col <= Len(tray.xlist)
       THEN LET xsz == tray.xlist[tray.col]
                ysz == tray.ylist[tray.row]
                slot == createSubtractSlot(tray.xOff, tray.yOff, xsz, ysz,
                                           tray.dep, tray.rdep, tray.floor)
            IN  IF slot.exc # "none"
                THEN /\ tray' = [tray EXCEPT !.exc = slot.exc]
                     /\ pc' = "raised"
                ELSE /\ tray' = [tray EXCEPT !.slots = Append(@, slot),
                                             !.xOff = Advance(@, tray.wall, xsz),
                                             !.col = @ + 1]
                     /\ pc' = "createTray_col"
       ELSE /\ tray' = [tray EXCEPT !.yOff = Advance(@, tray.wall, tray.ylist[tray.row]),
                                    !.row = @ + 1]
            /\ pc' = "createTray_row"
    /\ UNCHANGED <<globals, cli, ok, ret, scad, vol>>

\* the base block: cube([totalWidth, totalHeight, floor + depth]), with the
\* module-level depth
trayBasePrism(totalWidth, totalHeight, floor) ==
    <<totalWidth, totalHeight, floor + globals.depth>>

\* totals, union, base block, difference, calibration scale, return
createTray_Finish ==
    /\ pc = "createTray_finish"
    /\ IF ~DepthBound
       THEN /\ tray' = [tray EXCEPT !.exc = "NameError"]
            /\ pc' = "raised"
            /\ UNCHANGED ret
       ELSE /\ ret' = [totalWidth |-> tray.xOff,
                       totalHeight |-> tray.yOff,
                       solid |-> [scale |-> <<globals.xScale, globals.yScale,
                                              globals.zScale>>,
                                  base |-> trayBasePrism(tray.xOff, tray.yOff,
                                                         tray.floor),
                                  minus |-> tray.slots]]
            /\ pc' = IF tray.caller = "main" THEN "main_render" ELSE "client_done"
            /\ UNCHANGED tray
    /\ UNCHANGED <<globals, cli, ok, scad, vol>>

---------------------------------------------------------------------------
(* The module used as a library: a client imports it and calls a function *)

\* the client binds the module-level name: generic_tray.depth = g
Client_SetDepth ==
    /\ pc = "loaded"
    /\ ~DepthBound
    /\ \E g \in ClientDepths : globals' = globals @@ [depth |-> g]
    /\ UNCHANGED <<pc, cli, ok, tray, ret, scad, vol>>

Client_createTray ==
    /\ pc = "loaded"
    /\ \E xlist \in Lists, ylist \in Lists, dep \in Deps, rdep \in RDeps,
          wall \in Walls, floor \in Floors :
          tray' = Frame("client", xlist, ylist, dep, rdep, wall, floor)
    /\ pc' = "createTray_row"
    /\ UNCHANGED <<globals, cli, ok, ret, scad, vol>>

\* one call record of computeSlotVolume
VolCall(xsz, ysz, depth, rdepth, m) ==
    [xsz |-> xsz, ysz |-> ysz, depth |-> depth, rdepth |-> rdepth, m |-> m,
     res |-> computeSlotVolume(xsz, ysz, depth, rdepth, m)]

Client_computeSlotVolume ==
    /\ pc = "loaded"
    /\ \E xsz \in VolSizes, ysz \in VolSizes, depth \in Depths,
          rdepth \in Rounds, m \in MathBounds :
          LET c == VolCall(xsz, ysz, depth, rdepth, m)
          IN  /\ vol' = <<c>>
              /\ pc' = IF c.res.exc = "none" THEN "client_done" ELSE "raised"
    /\ UNCHANGED <<globals, cli, ok, tray, ret, scad>>

---------------------------------------------------------------------------
(* The script: if __name__ == "__main__" *)

\* what the operator may type at the prompt, as sequences of characters
Answers == {<<>>, <<"Y">>, <<"n">>, <<"N", "o">>}

\* str.lower(), on the characters the answers use
LowerChar(c) == IF c = "N" THEN "n" ELSE IF c = "Y" THEN "y" ELSE c
lower(s) == [k \in DOMAIN s |-> LowerChar(s[k])]
startswith(s, c) == Len(s) >= 1 /\ s[1] = c

\* ok.lower().startswith('n')
Declines_CaseSensitive(answer) == startswith(answer, "n")
Declines(answer) == startswith(lower(answer), "n")

\* rdepth > depth - 5
RoundConflict(rdepth, depth) == rdepth > depth - 5

\* max(depth - 5, 0)
ClampRound(depth) == Max(depth - 5, 0)

\* len(CLI_ARGS) < 2: the error message, the help text, exit(0)
Main_TooFewArgs ==
    /\ pc = "loaded"
    /\ ~DepthBound
    /\ cli' = [nargs |-> 1]
    /\ pc' = "exit0"
    /\ UNCHANGED <<globals, ok, tray, ret, scad, vol>>

\* parse_args, then floor, wall, depth, rdepth, xsizes, ysizes become
\* module-level names
Main_ReadOptions ==
    /\ pc = "loaded"
    /\ ~DepthBound
    /\ \E x \in CliLists, y \in CliLists, d \in Depths, r \in Rounds,
          w \in Walls, f \in Floors :
          /\ cli' = [nargs |-> 2, depth |-> d, rdepth |-> r, wall |-> w,
                     floor |-> f, xsizes |-> x, ysizes |-> y]
          /\ globals' = globals @@ [floor |-> f, wall |-> w, depth |-> d,
                                    rdepth |-> r, xsizes |-> x, ysizes |-> y]
    /\ pc' = "main_roundcheck"
    /\ UNCHANGED <<ok, tray, ret, scad, vol>>

\* the round-depth check: warn and ask, then abort or shorten
Main_RoundCheck ==
    /\ pc = "main_roundcheck"
    /\ IF RoundConflict(globals.rdepth, globals.depth)
       THEN \E answer \in Answers :
              /\ ok' = [text |-> answer]
              /\ IF Declines(answer)
                 THEN /\ pc' = "exit1"
                      /\ UNCHANGED globals
                 ELSE /\ globals' = [globals EXCEPT !.rdepth = ClampRound(globals.depth)]
                      /\ pc' = "main_call"
       ELSE /\ pc' = "main_call"
            /\ UNCHANGED <<ok, globals>>
    /\ UNCHANGED <<cli, tray, ret, scad, vol>>

\* createTray(xsizes, ysizes, depth, rdepth, wall, floor)
Main_createTray ==
    /\ pc = "main_call"
    /\ tray' = Frame("main", globals.xsizes, globals.ysizes, globals.depth,
                     globals.rdepth, globals.wall, globals.floor)
    /\ pc' = "createTray_row"
    /\ UNCHANGED <<globals, cli, ok, ret, scad, vol>>

\* scad_render_to_file(trayObj, fname, ...)
Main_Render ==
    /\ pc = "main_render"
    /\ scad' = TRUE
    /\ pc' = "main_report"
    /\ UNCHANGED <<globals, cli, ok, tray, ret, vol>>

\* The cells in the order the diagram visits them: rows from the last to the
\* first, columns from the first to the last.  (A row's cells are recomputed
\* on each of its character lines; the repeats are not recorded.)
ReportCells(nx, ny) ==
    [k \in 1..(nx * ny) |-> [i |-> ((k - 1) % nx) + 1,
                             revj |-> ny - ((k - 1) \div nx)]]

\* the size report and the ASCII diagram with each cell's volume
Main_Report ==
    /\ pc = "main_report"
    /\ LET xs == globals.xsizes
           ys == globals.ysizes
           cells == ReportCells(Len(xs), Len(ys))
           bad == {k \in DOMAIN cells : xs[cells[k].i] = 0}
           made == IF bad = {} THEN Len(cells)
                   ELSE CHOOSE k \in bad : \A b \in bad : k <= b
       IN  \* thgt / twid, mm / twid and mm / thgt divide first
           IF ret.totalWidth = 0 \/ (ys # <<>> /\ ret.totalHeight = 0)
           THEN /\ pc' = "raised"
                /\ UNCHANGED vol
           ELSE \E m \in MathBounds :
                  /\ vol' = [k \in 1..made |->
                               VolCall(xs[cells[k].i], ys[cells[k].revj],
                                       globals.depth, globals.rdepth, m)]
                  /\ pc' = IF bad = {} THEN "done" ELSE "raised"
    /\ UNCHANGED <<globals, cli, ok, tray, ret, scad>>

---------------------------------------------------------------------------

Next ==
    \/ Main_TooFewArgs
    \/ Main_ReadOptions
    \/ Main_RoundCheck
    \/ Main_createTray
    \/ Main_Render
    \/ Main_Report
    \/ Client_SetDepth
    \/ Client_createTray
    \/ Client_computeSlotVolume
    \/ createTray_Row
    \/ createTray_Col
    \/ createTray_Finish

Spec == Init /\ [][Next]_vars

---------------------------------------------------------------------------
(* Vocabulary of the properties *)

RECURSIVE Sum(_)
Sum(l) == IF l = <<>> THEN 0 ELSE l[1] + Sum(Tail(l))

AllPositive(l) == \A k \in DOMAIN l : l[k] > 0

\* a createTray call is running or has ended
Called == tray # NoValue

\* the inputs the contract of createTray admits
ValidInput ==
    /\ tray.xlist # <<>> /\ tray.ylist # <<>>
    /\ AllPositive(tray.xlist) /\ AllPositive(tray.ylist)
    /\ tray.wall >= 0

\* wall + sum(sizes) + wall * len(sizes)
FullExtent(sizes, wall) == wall + Sum(sizes) + wall * Len(sizes)

\* wall + the sum over k < i of (sizes[k] + wall)
Origin(sizes, i, wall) == wall + Sum(SubSeq(sizes, 1, i - 1)) + wall * (i - 1)

\* the prompt was shown; the answer begins with 'n' or 'N'
Asked == ok # NoValue
Declined == Asked /\ Len(ok.text) >= 1 /\ ok.text[1] \in {"n", "N"}

---------------------------------------------------------------------------
(* C1 *)

\* C1: for non-empty lists of positive sizes and wall >= 0, the xOff and
\* yOff the loops leave, and the totalWidth and totalHeight createTray
\* returns, are wall + sum(sizes) + wall * len(sizes): the closing wall is
\* included.
C1_TotalsAreFullFootprint ==
    (Called /\ ValidInput) =>
        /\ pc = "createTray_finish" =>
              /\ tray.xOff = FullExtent(tray.xlist, tray.wall)
              /\ tray.yOff = FullExtent(tray.ylist, tray.wall)
        /\ ret # NoValue =>
              /\ ret.totalWidth = FullExtent(tray.xlist, tray.wall)
              /\ ret.totalHeight = FullExtent(tray.ylist, tray.wall)

C1_Witness ==
    /\ Called /\ ValidInput /\ ret # NoValue
    /\ Len(tray.xlist) = 2 /\ Len(tray.ylist) = 2 /\ tray.wall = 1
    /\ tray.xlist = <<1, 2>>
    /\ ret.totalWidth = 6

---------------------------------------------------------------------------
(* C2 *)

\* C2: a createTray call with an empty size list or an entry <= 0 fails
\* before any geometry is built: no slot is created, nothing is returned.
C2_InvalidDimensionRejected ==
    (Called /\ ~(tray.xlist # <<>> /\ tray.ylist # <<>> /\ AllPositive(tray.xlist)
                 /\ AllPositive(tray.ylist))) =>
        /\ tray.slots = <<>>
        /\ ret = NoValue

---------------------------------------------------------------------------
(* C3 *)

\* C3: for sizeX, sizeY, depth > 0 and roundDepth = 0 the rounded term is
\* exactly 0, mL = sizeX*sizeY*depth/1000 and cups = sizeX*sizeY*depth/236588.
C3_FlatBottomIsBoxVolume ==
    \A k \in DOMAIN vol :
        LET c == vol[k]
        IN  (c.xsz > 0 /\ c.ysz > 0 /\ c.depth > 0 /\ c.rdepth = 0) =>
                /\ c.res.exc = "none"
                /\ c.res.round_mm3 = <<0, 1>>
                /\ c.res.mL = Rat(c.xsz * c.ysz * c.depth, 1000)
                /\ c.res.cups = Rat(c.xsz * c.ysz * c.depth, 236588)

C3_Witness ==
    /\ pc = "client_done" /\ Len(vol) = 1
    /\ vol[1].xsz = 2 /\ vol[1].ysz = 1 /\ vol[1].depth = 3 /\ vol[1].rdepth = 0
    /\ vol[1].res.mL = <<3, 500>>

---------------------------------------------------------------------------
(* C4 *)

\* the calls of the main flow
MainTray == Called /\ tray.caller = "main"
MainReport == cli # NoValue /\ vol # <<>>
\* the two positional arguments are non-empty lists of positive sizes
CliValid ==
    /\ cli.xsizes # <<>> /\ cli.ysizes # <<>>
    /\ AllPositive(cli.xsizes) /\ AllPositive(cli.ysizes)

\* C4: in the main flow, for every --depth > 0, every --round and either
\* answer, the rdepth passed to createTray and to computeSlotVolume
\* satisfies 0 <= rdepth <= depth.  (Stated for runs on valid size lists.)
C4_RoundWithinDepth ==
    /\ (MainTray /\ CliValid /\ cli.depth > 0) =>
          (0 <= tray.rdep /\ tray.rdep <= tray.dep)
    /\ (MainReport /\ CliValid /\ cli.depth > 0) =>
          \A k \in DOMAIN vol : (0 <= vol[k].rdepth /\ vol[k].rdepth <= vol[k].depth)

---------------------------------------------------------------------------
(* C5 *)

---------------------------------------------------------------------------
(* C6 *)

\* C6: the volume is strictly increasing in depth for fixed sizeX, sizeY > 0
\* and fixed roundDepth, and strictly decreasing in roundDepth over
\* 0 <= roundDepth <= depth for fixed sizeX, sizeY > 0 and fixed depth,
\* for each pair of rational bounds taken for sqrt(2) and pi.
C6_VolumeMonotone ==
    \A k \in DOMAIN vol :
        LET c == vol[k]
        IN  (c.xsz > 0 /\ c.ysz > 0 /\ c.res.exc = "none") =>
                /\ \A d2 \in Depths : d2 > c.depth =>
                      LET r2 == computeSlotVolume(c.xsz, c.ysz, d2, c.rdepth, c.m)
                      IN  RLess(c.res.mL, r2.mL) /\ RLess(c.res.mm3, r2.mm3)
                /\ (0 <= c.rdepth /\ c.rdepth <= c.depth) =>
                      \A rd2 \in Rounds : (c.rdepth < rd2 /\ rd2 <= c.depth) =>
                          LET r2 == computeSlotVolume(c.xsz, c.ysz, c.depth, rd2, c.m)
                          IN  RLess(r2.mL, c.res.mL) /\ RLess(r2.mm3, c.res.mm3)

C6_Witness ==
    /\ pc = "client_done" /\ Len(vol) = 1
    /\ vol[1].xsz = 1 /\ vol[1].ysz = 2 /\ vol[1].depth = 4 /\ vol[1].rdepth = 2
    /\ RLess(computeSlotVolume(1, 2, 4, 3, vol[1].m).mL, vol[1].res.mL)
    /\ RLess(vol[1].res.mL, computeSlotVolume(1, 2, 5, 2, vol[1].m).mL)

---------------------------------------------------------------------------
(* C7 *)

\* C7: for a square cavity (sizeX = sizeY = s > 0) and 0 < roundDepth <=
\* depth the Y-aspect factor is exactly 1, the rounded region holds strictly
\* less than s*s*roundDepth, and the total strictly less than s*s*depth.
C7_SquareRoundedBelowBox ==
    \A k \in DOMAIN vol :
        LET c == vol[k]
        IN  (c.xsz > 0 /\ c.ysz = c.xsz /\ 0 < c.rdepth /\ c.rdepth <= c.depth) =>
                /\ c.res.exc = "none"
                /\ c.res.scaleY = <<1, 1>>
                /\ RLess(c.res.round_mm3, FromInt(c.xsz * c.xsz * c.rdepth))
                /\ RLess(c.res.mm3, FromInt(c.xsz * c.xsz * c.depth))

C7_Witness ==
    /\ pc = "client_done" /\ Len(vol) = 1
    /\ vol[1].xsz = 2 /\ vol[1].ysz = 2 /\ vol[1].depth = 3 /\ vol[1].rdepth = 3
    /\ vol[1].res.scaleY = <<1, 1>>
    /\ RLess(<<0, 1>>, vol[1].res.round_mm3)

---------------------------------------------------------------------------
(* C8 *)

\* C8: the depth argument shapes the geometry: every cavity's prism is
\* 1.1 * dep high and the base block floor + dep, whatever the module-level
\* names hold; the call does not depend on them.
C8_DepthArgumentShapesGeometry ==
    Called =>
        /\ tray.exc # "NameError"
        /\ \A k \in DOMAIN tray.slots :
              PrismHeight(tray.slots[k]) = Rat(11 * tray.dep, 10)
        /\ ret # NoValue => ret.solid.base[3] = tray.floor + tray.dep

---------------------------------------------------------------------------
(* C9 *)

\* the cell of the k-th slot in row-major order
ColOf(k) == ((k - 1) % Len(tray.xlist)) + 1
RowOf(k) == ((k - 1) \div Len(tray.xlist)) + 1

\* a and b are at least wall apart along x or along y
Apart(a, b, wall) ==
    \/ RLeq(RAdd(a.x1, FromInt(wall)), b.x0)
    \/ RLeq(RAdd(b.x1, FromInt(wall)), a.x0)
    \/ RLeq(RAdd(a.y1, FromInt(wall)), b.y0)
    \/ RLeq(RAdd(b.y1, FromInt(wall)), a.y0)

\* C9: for valid input the slots are created in row-major order, cell (i, j)
\* at (wall + sum k<i of (xSizes[k] + wall), wall + sum l<j of (ySizes[l] +
\* wall)) with footprint xSizes[i] by ySizes[j]; at every step every
\* footprint lies inside [wall, totalWidth - wall] x [wall, totalHeight -
\* wall], two distinct cavities are at least wall apart along x or y, and
\* the returned solid has len(xSizes) * len(ySizes) cavities.
C9_GridLayout ==
    (Called /\ ValidInput) =>
        LET w == tray.wall
            W == FullExtent(tray.xlist, w)
            H == FullExtent(tray.ylist, w)
            fp(k) == Footprint(tray.slots[k])
        IN  /\ \A k \in DOMAIN tray.slots :
                  /\ fp(k).x0 = FromInt(Origin(tray.xlist, ColOf(k), w))
                  /\ fp(k).y0 = FromInt(Origin(tray.ylist, RowOf(k), w))
                  /\ fp(k).x1 = RAdd(fp(k).x0, FromInt(tray.xlist[ColOf(k)]))
                  /\ fp(k).y1 = RAdd(fp(k).y0, FromInt(tray.ylist[RowOf(k)]))
                  /\ RLeq(FromInt(w), fp(k).x0) /\ RLeq(fp(k).x1, FromInt(W - w))
                  /\ RLeq(FromInt(w), fp(k).y0) /\ RLeq(fp(k).y1, FromInt(H - w))
            /\ \A k1, k2 \in DOMAIN tray.slots :
                  k1 # k2 => Apart(fp(k1), fp(k2), w)
            /\ pc \in {"createTray_row", "createTray_col"} =>
                  Len(tray.slots) = (tray.row - 1) * Len(tray.xlist)
                                    + (IF pc = "createTray_col" THEN tray.col - 1 ELSE 0)
            /\ ret # NoValue =>
                  /\ ret.solid.minus = tray.slots
                  /\ Len(ret.solid.minus) = Len(tray.xlist) * Len(tray.ylist)
                  /\ ret.totalWidth = W /\ ret.totalHeight = H

C9_Witness ==
    /\ Called /\ ValidInput /\ ret # NoValue
    /\ tray.xlist = <<1, 2>> /\ tray.ylist = <<2, 1>> /\ tray.wall = 1
    /\ tray.rdep > 0
    /\ Len(tray.slots) = 4
    /\ Footprint(tray.slots[4]).x0 = <<3, 1>>
    /\ Footprint(tray.slots[4]).y0 = <<4, 1>>

---------------------------------------------------------------------------
(* C10 *)

\* C10: whenever roundDepth <= 0 (the flat-prism branch of
\* createSubtractSlot), computeSlotVolume returns exactly
\* sizeX*sizeY*depth mm3, i.e. mL = sizeX*sizeY*depth/1000.
C10_FlatBranchVolume ==
    \A k \in DOMAIN vol :
        LET c == vol[k]
        IN  (c.rdepth <= 0 /\ c.res.exc = "none") =>
                /\ c.res.mm3 = FromInt(c.xsz * c.ysz * c.depth)
                /\ c.res.mL = Rat(c.xsz * c.ysz * c.depth, 1000)

===========================================================================
